---- MODULE Spec2Model ----
(***************************************************************************)
(* A model of the request-limiter proxy: the per-key throttler             *)
(* (crates/throttle/src/lib.rs), the TTL cache                             *)
(* (crates/cache/src/lib.rs, crates/cache/src/storage.rs) and the proxy    *)
(* server that uses both (crates/limiter/src/lib.rs).                      *)
(*                                                                         *)
(* Time is a discrete clock.  An operation that samples the clock does so  *)
(* at an instant chosen at or after the current one, so calls happen "at   *)
(* arbitrary times"; tasks run on a multi-threaded runtime, so the steps   *)
(* of different calls interleave at every point where the code holds no    *)
(* lock.                                                                   *)
(***************************************************************************)
EXTENDS Integers, Sequences, FiniteSets, TLC

\* ---------------------------------------------------------------- bounds
NCalls == 3          \* throttle() calls in one behaviour
MaxTime == 3         \* latest instant at which a call samples the clock
Interval == 2        \* the configured throttle duration, in clock ticks

NOps == 3            \* cache operations (put or get) in one behaviour
MaxWall == 2         \* latest second at which a cache operation samples the clock
Ttl == 1             \* the ttl_seconds the cache is constructed with

Keys == {"a", "b"}   \* upstream addresses
Calls == 1..NCalls
CKeys == {"x"}       \* cache keys (request fingerprints); the map is per key
Ops == 1..NOps

VARIABLES
    clock,           \* the monotonic clock (std::time::Instant::now())
    key_timestamps,  \* InMemoryThrottler.key_timestamps: key -> next admit instant
    pc,              \* per call: where in throttle() it is
    key,             \* per call: the key argument
    now,             \* per call: the sampled instant (line 38)
    seen,            \* per call: what get_mut returned, <<>> = None, <<v>> = Some(v)
    wait,            \* per call: wait_duration
    wake_at,         \* per call: instant at which its armed sleep is over (0: no timer)
    resv             \* history: per key, the reservations in the order they completed

throttleVars == <<clock, key_timestamps, pc, key, now, seen, wait, wake_at, resv>>

VARIABLES
    wall,               \* the wall clock, in seconds (SystemTime::now())
    ttl_seconds,        \* Cache.ttl_seconds
    backend,            \* the CacheStorage the cache was built on: "memory" or "file"
    key_and_evict_map,  \* Cache.key_and_evict_map: key -> evict time
    store,              \* the storage backend's contents: key -> bytes
    opc,                \* per operation: where in put()/get() it is
    okind,              \* per operation: "put" or "get" ("-": not started)
    okey,               \* per operation: the key argument
    onow,               \* per operation: the sampled now_seconds()
    oval,               \* per operation: put: the value argument
    oevict,             \* per operation: put: <<evict_time>>; get: evict_time_opt
    oret                \* per operation: get: <<>> = None, <<bytes>> = Some(bytes);
                        \*                put: Ok(()) or Err(())

cacheVars == <<wall, ttl_seconds, backend, key_and_evict_map, store,
               opc, okind, okey, onow, oval, oevict, oret>>

Max(x, y) == IF x >= y THEN x ELSE y

\* ------------------------------------------------------------ throttler
\* self.throttle_duration_ms, read at the start of throttle()
required_delay == Interval

\* now.max(*entry)
StartTimeMin(n, entry) == IF n <= entry THEN n ELSE entry
StartTime(n, entry) == Max(n, entry)

\* start_time + required_delay
NewStartShort(start_time) == start_time
NewStart(start_time) == start_time + required_delay

\* start_time.duration_since(now): saturates at zero
WaitDuration(start_time, n) == IF start_time >= n THEN start_time - n ELSE 0

\* the key under which a call reads and writes the map
EntryKeyShared(c) == "a"
EntryKey(c) == key[c]

\* DashMap::get: <<>> = None, <<v>> = Some(v)
MapGet(m, k) == IF k \in DOMAIN m THEN <<m[k]>> ELSE << >>

\* DashMap::insert: insert or overwrite
MapInsert(m, k, v) == [x \in (DOMAIN m) \cup {k} |-> IF x = k THEN v ELSE m[x]]

Reservation(c, found, v) == [call |-> c, found |-> found, new |-> v]

ThrottlerNew ==
    /\ clock = 0
    /\ key_timestamps = << >>
    /\ pc = [c \in Calls |-> "idle"]
    /\ key = [c \in Calls |-> "-"]
    /\ now = [c \in Calls |-> 0]
    /\ seen = [c \in Calls |-> << >>]
    /\ wait = [c \in Calls |-> 0]
    /\ wake_at = [c \in Calls |-> 0]
    /\ resv = [k \in Keys |-> << >>]

\* throttle(key) is called at instant t and samples the clock
ThrottleCall(c, k, t) ==
    /\ t >= clock
    /\ clock' = t
    /\ now' = [now EXCEPT ![c] = t]
    /\ key' = [key EXCEPT ![c] = k]
    /\ pc' = [pc EXCEPT ![c] = "get_mut"]
    /\ UNCHANGED <<key_timestamps, seen, wait, wake_at, resv>>

\* Call ids are interchangeable, and so are keys: calls are started in the
\* order of their ids, and the first call is on key "a".
Throttle(c, k, t) ==
    /\ pc[c] = "idle"
    /\ \A d \in Calls : d < c => pc[d] # "idle"
    /\ (\A d \in Calls : pc[d] = "idle") => k = "a"
    /\ ThrottleCall(c, k, t)

\* key_timestamps.get_mut(key): Some(entry) updates the entry under the shard
\* lock; None returns with the lock released
GetMut(c) ==
    /\ pc[c] = "get_mut"
    /\ LET k == EntryKey(c) IN
       IF k \in DOMAIN key_timestamps
       THEN LET entry == key_timestamps[k]
                start_time == StartTime(now[c], entry)
                new_start == NewStart(start_time)
                w == WaitDuration(start_time, now[c])
            IN /\ key_timestamps' = [key_timestamps EXCEPT ![k] = new_start]
               /\ seen' = [seen EXCEPT ![c] = <<entry>>]
               /\ wait' = [wait EXCEPT ![c] = w]
               /\ wake_at' = [wake_at EXCEPT ![c] = clock + w]
               /\ pc' = [pc EXCEPT ![c] = IF w > 0 THEN "sleeping" ELSE "done"]
               /\ resv' = [resv EXCEPT ![k] = Append(@, Reservation(c, TRUE, new_start))]
       ELSE /\ pc' = [pc EXCEPT ![c] = "insert"]
            /\ seen' = [seen EXCEPT ![c] = << >>]
            /\ UNCHANGED <<key_timestamps, wait, wake_at, resv>>
    /\ UNCHANGED <<clock, key, now>>

\* the else branch: key_timestamps.insert(key, now + required_delay), wait 0
InsertSelfDeadlock(c) ==
    /\ pc[c] = "insert"
    /\ FALSE            \* the insert waits for a shard lock its own task holds
    /\ UNCHANGED throttleVars
Insert(c) ==
    /\ pc[c] = "insert"
    /\ LET k == EntryKey(c)
           new_start == now[c] + required_delay
       IN /\ key_timestamps' = MapInsert(key_timestamps, k, new_start)
          /\ resv' = [resv EXCEPT ![k] = Append(@, Reservation(c, FALSE, new_start))]
    /\ wait' = [wait EXCEPT ![c] = 0]
    /\ pc' = [pc EXCEPT ![c] = "done"]
    /\ UNCHANGED <<clock, key, now, seen, wake_at>>

\* tokio::time::sleep(wait_duration) is over: throttle() returns
Wake(c) ==
    /\ pc[c] = "sleeping"
    /\ clock' = Max(clock, wake_at[c])
    /\ pc' = [pc EXCEPT ![c] = "done"]
    /\ wake_at' = [wake_at EXCEPT ![c] = 0]
    /\ UNCHANGED <<key_timestamps, key, now, seen, wait, resv>>

\* the caller's future is dropped while it sleeps
CancelRollback(c) ==
    /\ pc[c] = "sleeping"
    /\ pc' = [pc EXCEPT ![c] = "cancelled"]
    /\ key_timestamps' = [key_timestamps EXCEPT ![EntryKey(c)] = @ - required_delay]
    /\ wake_at' = [wake_at EXCEPT ![c] = 0]
    /\ UNCHANGED <<clock, key, now, seen, wait, resv>>
Cancel(c) ==
    /\ pc[c] = "sleeping"
    /\ pc' = [pc EXCEPT ![c] = "cancelled"]
    /\ wake_at' = [wake_at EXCEPT ![c] = 0]
    /\ UNCHANGED <<clock, key_timestamps, key, now, seen, wait, resv>>

\* ---------------------------------------------------------------- cache
\* what put returns, Result<(), ()>: a pair, so that it is told
\* from the Option a get returns (an empty or a one-element sequence)
PutOkUnit == <<"Ok", "()">>
PutErrUnit == <<"Err", "()">>

\* the bytes a put called on the cache alone writes: two bytes that name the
\* operation
Val(o) == <<o, o>>

\* Cache::new / Cache::new_file_cache with ttl_seconds = ttl
CacheNew(ttl, b) ==
    /\ wall = 0
    /\ ttl_seconds = ttl
    /\ backend = b
    /\ key_and_evict_map = << >>
    /\ store = << >>
    /\ opc = [o \in Ops |-> "idle"]
    /\ okind = [o \in Ops |-> "-"]
    /\ okey = [o \in Ops |-> "-"]
    /\ onow = [o \in Ops |-> 0]
    /\ oval = [o \in Ops |-> << >>]
    /\ oevict = [o \in Ops |-> << >>]
    /\ oret = [o \in Ops |-> << >>]

\* DashMap::remove / remove_file: the map without the key
MapRemove(m, k) == [x \in (DOMAIN m) \ {k} |-> m[x]]

\* evict_time > now
ValidInclusive(evict_time, n) == evict_time >= n
Valid(evict_time, n) == evict_time > n

\* now + self.get_ttl()
EvictTimeNoTtl(n) == n
EvictTime(n) == n + ttl_seconds

\* operation ids are interchangeable: operations start in the order of their ids
MayStart(o) == opc[o] = "idle" /\ \A q \in Ops : q < o => opc[q] # "idle"

\* Cache::put(key, value), to the computation of evict_time
CachePutCall(o, k, v, t) ==
    /\ t >= wall
    /\ wall' = t
    /\ okind' = [okind EXCEPT ![o] = "put"]
    /\ okey' = [okey EXCEPT ![o] = k]
    /\ onow' = [onow EXCEPT ![o] = t]
    /\ oval' = [oval EXCEPT ![o] = v]
    /\ oevict' = [oevict EXCEPT ![o] = <<EvictTime(t)>>]
    /\ opc' = [opc EXCEPT ![o] = "put_insert"]
    /\ UNCHANGED <<ttl_seconds, backend, key_and_evict_map, store, oret>>

Put(o, k, t) == MayStart(o) /\ CachePutCall(o, k, Val(o), t)

\* Cache::put: key_and_evict_map.insert(key, evict_time)
PutInsertSkipped(o) ==
    /\ opc[o] = "put_insert"
    /\ opc' = [opc EXCEPT ![o] = "put_store"]
    /\ UNCHANGED <<wall, ttl_seconds, backend, key_and_evict_map, store,
                   okind, okey, onow, oval, oevict, oret>>
PutInsert(o) ==
    /\ opc[o] = "put_insert"
    /\ key_and_evict_map' = MapInsert(key_and_evict_map, okey[o], oevict[o][1])
    /\ opc' = [opc EXCEPT ![o] = "put_store"]
    /\ UNCHANGED <<wall, ttl_seconds, backend, store, okind, okey, onow, oval, oevict, oret>>

\* store.put: InMemoryStorage inserts the bytes; SimpleFileStorage creates the
\* directory and the file (truncating what the file held), or fails
StorePut(o) ==
    /\ opc[o] = "put_store"
    /\ \/ /\ backend = "memory"
          /\ store' = MapInsert(store, okey[o], oval[o])
          /\ oret' = [oret EXCEPT ![o] = PutOkUnit]
          /\ opc' = [opc EXCEPT ![o] = "done"]
       \/ /\ backend = "file"
          /\ store' = MapInsert(store, okey[o], << >>)
          /\ opc' = [opc EXCEPT ![o] = "put_write"]
          /\ UNCHANGED oret
       \/ /\ backend = "file"
          /\ oret' = [oret EXCEPT ![o] = PutErrUnit]
          /\ opc' = [opc EXCEPT ![o] = "done"]
          /\ UNCHANGED store
    /\ UNCHANGED <<wall, ttl_seconds, backend, key_and_evict_map, okind, okey, onow, oval, oevict>>

\* SimpleFileStorage::put: file.write_all(value) writes all the bytes, or
\* fails after a part of them; a file removed in between takes no bytes
StoreWrite(o) ==
    /\ opc[o] = "put_write"
    /\ \/ /\ store' = IF okey[o] \in DOMAIN store
                       THEN [store EXCEPT ![okey[o]] = oval[o]] ELSE store
          /\ oret' = [oret EXCEPT ![o] = PutOkUnit]
       \/ /\ store' = IF okey[o] \in DOMAIN store
                       THEN [store EXCEPT ![okey[o]] = SubSeq(oval[o], 1, 1)] ELSE store
          /\ oret' = [oret EXCEPT ![o] = PutErrUnit]
    /\ opc' = [opc EXCEPT ![o] = "done"]
    /\ UNCHANGED <<wall, ttl_seconds, backend, key_and_evict_map, okind, okey, onow, oval, oevict>>

\* Cache::get(key): now sampled
CacheGetCall(o, k, t) ==
    /\ t >= wall
    /\ wall' = t
    /\ okind' = [okind EXCEPT ![o] = "get"]
    /\ okey' = [okey EXCEPT ![o] = k]
    /\ onow' = [onow EXCEPT ![o] = t]
    /\ opc' = [opc EXCEPT ![o] = "get_lookup"]
    /\ UNCHANGED <<ttl_seconds, backend, key_and_evict_map, store, oval, oevict, oret>>

Get(o, k, t) == MayStart(o) /\ CacheGetCall(o, k, t)

\* Cache::get: the expiry record is read and compared with now
GetLookup(o) ==
    /\ opc[o] = "get_lookup"
    /\ LET evict_time_opt == MapGet(key_and_evict_map, okey[o]) IN
       /\ oevict' = [oevict EXCEPT ![o] = evict_time_opt]
       /\ IF evict_time_opt = << >>
          THEN /\ opc' = [opc EXCEPT ![o] = "done"]      \* None: key not found
               /\ oret' = [oret EXCEPT ![o] = << >>]
          ELSE /\ opc' = [opc EXCEPT ![o] =
                         IF Valid(evict_time_opt[1], onow[o])
                         THEN "get_store" ELSE "get_delete"]
               /\ UNCHANGED oret
    /\ UNCHANGED <<wall, ttl_seconds, backend, key_and_evict_map, store, okind, okey, onow, oval>>

\* found and valid: return self.store.get(key)
GetStore(o) ==
    /\ opc[o] = "get_store"
    /\ oret' = [oret EXCEPT ![o] = MapGet(store, okey[o])]
    /\ opc' = [opc EXCEPT ![o] = "done"]
    /\ UNCHANGED <<wall, ttl_seconds, backend, key_and_evict_map, store, okind, okey, onow, oval, oevict>>

\* expired: self.store.delete(key).ok()
GetDeleteSkipped(o) ==
    /\ opc[o] = "get_delete"
    /\ opc' = [opc EXCEPT ![o] = "get_remove"]
    /\ UNCHANGED <<wall, ttl_seconds, backend, key_and_evict_map, store,
                   okind, okey, onow, oval, oevict, oret>>
GetDelete(o) ==
    /\ opc[o] = "get_delete"
    /\ store' = MapRemove(store, okey[o])
    /\ opc' = [opc EXCEPT ![o] = "get_remove"]
    /\ UNCHANGED <<wall, ttl_seconds, backend, key_and_evict_map, okind, okey, onow, oval, oevict, oret>>

\* expired: self.key_and_evict_map.remove(key); return None
GetRemove(o) ==
    /\ opc[o] = "get_remove"
    /\ key_and_evict_map' = MapRemove(key_and_evict_map, okey[o])
    /\ oret' = [oret EXCEPT ![o] = << >>]
    /\ opc' = [opc EXCEPT ![o] = "done"]
    /\ UNCHANGED <<wall, ttl_seconds, backend, store, okind, okey, onow, oval, oevict>>

\* --------------------------------------------------------------- server
NConns == 2          \* client connections in one behaviour
Conns == 1..NConns   \* connection n runs its cache calls as operation n and
                     \* its throttle call as call n

VARIABLES
    listener,         \* run(): "unbound", "accepting", or the panic that ended it
    hpc,              \* per connection: where its handler task is
    client_lines,     \* per connection: the lines the client sends, a line being
                      \* its whitespace-separated tokens
    client_closed,    \* per connection: a read of the client stream returned 0
                      \* (the client closed its sending direction)
    cache_key,        \* per connection: the request fingerprint (<<>>: not computed)
    cached_response,  \* per connection: <<r>> when cache.get returned r, r being
                      \* <<>> = None or <<bytes>> = Some(bytes); <<>> before
    dialed,           \* per connection: TcpStream::connect returned a stream
    client_out,       \* per connection: the bytes written to the client
    cache_buffer,     \* per connection: cache_buffer
    upstream_task,    \* per connection: the spawned client -> upstream copy:
                      \* "none", "running", "ok" or "err"
    overlapped        \* history: a connection was accepted while the handler of
                      \* another was still running

serverVars == <<listener, hpc, client_lines, client_closed, cache_key,
                cached_response, dialed, client_out, cache_buffer, upstream_task,
                overlapped>>

EmptyLine == << >>
GetLine == <<"GET", "http://a/", "HTTP/1.1">>
ConnectLine == <<"CONNECT", "b", "HTTP/1.1">>
RelativeUrlLine == <<"GET", "/", "HTTP/1.1">>

\* what a client sends before it waits or closes
Requests ==
    { << >>,                            \* nothing
      << <<"GET">> >>,                  \* a request line of one token
      << GetLine >>,                    \* no empty line after the request line
      << GetLine, EmptyLine >>,
      << ConnectLine, EmptyLine >>,
      << RelativeUrlLine, EmptyLine >> }

\* the bytes the upstream sends before it closes, at most
Response == <<"H", "W">>

connection_established == "HTTP/1.1 200 Connection Established"

\* first_line.trim().split_whitespace().collect()
Parts(first_line) == first_line

method(n) == Parts(client_lines[n][1])[1]
host_or_url(n) == Parts(client_lines[n][1])[2]

\* Url::parse(url_str) and the target_addr made of it: <<addr>>, or << >> for
\* Err ("a" stands for a:80)
UrlParse(url_str) ==
    IF url_str = "http://a/" THEN <<"a">>
    ELSE IF url_str = "http://b/" THEN <<"b">>
    ELSE << >>

\* host (CONNECT) or target_addr (other methods)
TargetAddr(n) ==
    IF method(n) = "CONNECT" THEN host_or_url(n) ELSE UrlParse(host_or_url(n))[1]

\* the header loop: the index of the line on which it breaks (the first empty
\* line after the request line), 0 when it runs into the end of the stream
HeaderEnd(lines) ==
    IF \E i \in 2..Len(lines) : lines[i] = EmptyLine
    THEN CHOOSE i \in 2..Len(lines) :
            lines[i] = EmptyLine /\ \A j \in 2..(i - 1) : lines[j] # EmptyLine
    ELSE 0

\* request_buffer / full_request_str when the loop is left
RequestBuffer(lines) ==
    IF HeaderEnd(lines) = 0 THEN lines ELSE SubSeq(lines, 1, HeaderEnd(lines))

\* hex(sha256(addr ++ request)): distinct inputs give distinct keys
Fingerprint(addr, request) == <<addr, request>>

\* Server::new_in_memory, run() not yet started
ServerNew ==
    /\ listener = "unbound"
    /\ hpc = [n \in Conns |-> "none"]
    /\ client_lines = [n \in Conns |-> << >>]
    /\ client_closed = [n \in Conns |-> FALSE]
    /\ cache_key = [n \in Conns |-> << >>]
    /\ cached_response = [n \in Conns |-> << >>]
    /\ dialed = [n \in Conns |-> FALSE]
    /\ client_out = [n \in Conns |-> << >>]
    /\ cache_buffer = [n \in Conns |-> << >>]
    /\ upstream_task = [n \in Conns |-> "none"]
    /\ overlapped = FALSE

\* TcpListener::bind(..).await.expect(..)
Bind(ok) ==
    /\ listener = "unbound"
    /\ listener' = IF ok THEN "accepting" ELSE "Failed to bind to address"
    /\ UNCHANGED <<hpc, client_lines, client_closed, cache_key, cached_response,
                   dialed, client_out, cache_buffer, upstream_task>>
    /\ UNCHANGED <<throttleVars, cacheVars>>
    /\ UNCHANGED overlapped

\* the handler task of the connection has been spawned and has not ended
Running(n) == hpc[n] \notin {"none", "done", "failed", "aborted"}

\* listener.accept().await.expect(..) returns connection n, whose client
\* sends req; the handler task is spawned
Accept(n, req) ==
    /\ listener = "accepting"
    /\ hpc[n] = "none"
    /\ \A m \in Conns : m < n => hpc[m] # "none"
    /\ hpc' = [hpc EXCEPT ![n] = "first_line"]
    /\ client_lines' = [client_lines EXCEPT ![n] = req]
    /\ overlapped' = (overlapped \/ \E m \in Conns : Running(m))
    /\ UNCHANGED <<listener, client_closed, cache_key, cached_response,
                   dialed, client_out, cache_buffer, upstream_task>>
    /\ UNCHANGED <<throttleVars, cacheVars>>

\* listener.accept() returns Err instead of the next connection: expect
\* panics the acceptor
AcceptFail ==
    /\ listener = "accepting"
    /\ \E n \in Conns : hpc[n] = "none"
    /\ listener' = "Failed to accept connection"
    /\ UNCHANGED <<hpc, client_lines, client_closed, cache_key, cached_response,
                   dialed, client_out, cache_buffer, upstream_task>>
    /\ UNCHANGED <<throttleVars, cacheVars>>
    /\ UNCHANGED overlapped

\* the handler's locals are dropped when its future ends: cache_buffer is
\* freed and the JoinHandle of upstream_task is dropped, which detaches it
DropLocals(n) ==
    /\ cache_buffer' = [cache_buffer EXCEPT ![n] = << >>]
    /\ upstream_task' = [upstream_task EXCEPT ![n] = "none"]

\* handle_connection returns Err: the spawned task prints it and ends
HandlerErrFatal(n) ==
    /\ hpc' = [hpc EXCEPT ![n] = "failed"]
    /\ listener' = "Error handling connection"
    /\ DropLocals(n)
HandlerErr(n) ==
    /\ hpc' = [hpc EXCEPT ![n] = "failed"]
    /\ UNCHANGED listener
    /\ DropLocals(n)

\* handle_connection: the first line is read and split; handle_else_methods
\* parses the URL
ReadFirstLine(n) ==
    /\ hpc[n] = "first_line"
    /\ client_closed' = [client_closed EXCEPT ![n] = (client_lines[n] = << >>)]
    /\ IF client_lines[n] = << >>
       THEN HandlerErr(n)                      \* read_line returned 0
       ELSE IF Len(Parts(client_lines[n][1])) < 3
       THEN HandlerErr(n)                      \* Invalid HTTP request line
       ELSE IF method(n) # "CONNECT" /\ UrlParse(host_or_url(n)) = << >>
       THEN HandlerErr(n)                      \* Url::parse(url_str)?
       ELSE /\ hpc' = [hpc EXCEPT ![n] = "headers"]
            /\ UNCHANGED <<listener, cache_buffer, upstream_task>>
    /\ UNCHANGED <<client_lines, cache_key, cached_response, dialed, client_out>>
    /\ UNCHANGED <<throttleVars, cacheVars>>
    /\ UNCHANGED overlapped

\* the header loop runs to the empty line or to the end of the stream; the
\* cache key is computed and cache.get(&cache_key) is called at second t
ReadHeaders(n, t) ==
    /\ hpc[n] = "headers"
    /\ client_closed' = [client_closed EXCEPT ![n] = (HeaderEnd(client_lines[n]) = 0)]
    /\ LET k == Fingerprint(TargetAddr(n), RequestBuffer(client_lines[n])) IN
       /\ cache_key' = [cache_key EXCEPT ![n] = k]
       /\ CacheGetCall(n, k, t)
    /\ hpc' = [hpc EXCEPT ![n] = "cache_get"]
    /\ UNCHANGED <<listener, client_lines, cached_response,
                   dialed, client_out, cache_buffer, upstream_task>>
    /\ UNCHANGED throttleVars
    /\ UNCHANGED overlapped

\* cache.get returned Some(cached_response)
CacheHitThenThrottle(n) ==
    /\ hpc[n] = "cache_get"
    /\ opc[n] = "done" /\ oret[n] # << >>
    /\ cached_response' = [cached_response EXCEPT ![n] = <<oret[n]>>]
    /\ hpc' = [hpc EXCEPT ![n] = "throttle"]
    /\ ThrottleCall(n, TargetAddr(n), clock)
    /\ UNCHANGED <<listener, client_lines, client_closed, cache_key,
                   dialed, client_out, cache_buffer, upstream_task>>
    /\ UNCHANGED cacheVars
    /\ UNCHANGED overlapped
CacheHit(n) ==
    /\ hpc[n] = "cache_get"
    /\ opc[n] = "done" /\ oret[n] # << >>
    /\ cached_response' = [cached_response EXCEPT ![n] = <<oret[n]>>]
    /\ hpc' = [hpc EXCEPT ![n] = "replay"]
    /\ UNCHANGED <<listener, client_lines, client_closed, cache_key,
                   dialed, client_out, cache_buffer, upstream_task>>
    /\ UNCHANGED <<throttleVars, cacheVars>>
    /\ UNCHANGED overlapped

\* the hit: write_all(&cached_response), flush, shutdown, return Ok(())
Replay(n) ==
    /\ hpc[n] = "replay"
    /\ client_out' = [client_out EXCEPT ![n] = @ \o cached_response[n][1][1]]
    /\ hpc' = [hpc EXCEPT ![n] = "done"]
    /\ UNCHANGED <<listener, client_lines, client_closed, cache_key, cached_response,
                   dialed, cache_buffer, upstream_task>>
    /\ UNCHANGED <<throttleVars, cacheVars>>
    /\ UNCHANGED overlapped

\* cache.get returned None: throttler.throttle(host) is called at instant t
CacheMiss(n, t) ==
    /\ hpc[n] = "cache_get"
    /\ opc[n] = "done" /\ oret[n] = << >>
    /\ cached_response' = [cached_response EXCEPT ![n] = <<oret[n]>>]
    /\ hpc' = [hpc EXCEPT ![n] = "throttle"]
    /\ ThrottleCall(n, TargetAddr(n), t)
    /\ UNCHANGED <<listener, client_lines, client_closed, cache_key,
                   dialed, client_out, cache_buffer, upstream_task>>
    /\ UNCHANGED cacheVars
    /\ UNCHANGED overlapped

\* throttle returned; TcpStream::connect(host).await? returns the stream, or
\* Err
Dial(n, ok) ==
    /\ hpc[n] = "throttle"
    /\ pc[n] = "done"
    /\ IF ok
       THEN /\ dialed' = [dialed EXCEPT ![n] = TRUE]
            /\ hpc' = [hpc EXCEPT ![n] = "connected"]
            /\ UNCHANGED <<listener, cache_buffer, upstream_task>>
       ELSE /\ HandlerErr(n)
            /\ UNCHANGED dialed
    /\ UNCHANGED <<client_lines, client_closed, cache_key, cached_response, client_out>>
    /\ UNCHANGED <<throttleVars, cacheVars>>
    /\ UNCHANGED overlapped

\* CONNECT: the 200 line is written to the client; other methods: the request
\* line and the headers are written to the upstream.  The streams are split
\* and upstream_task is spawned.
StartRelay(n) ==
    /\ hpc[n] = "connected"
    /\ client_out' = [client_out EXCEPT ![n] =
                         IF method(n) = "CONNECT"
                         THEN Append(@, connection_established) ELSE @]
    /\ upstream_task' = [upstream_task EXCEPT ![n] = "running"]
    /\ hpc' = [hpc EXCEPT ![n] = "relay"]
    /\ UNCHANGED <<listener, client_lines, client_closed, cache_key, cached_response,
                   dialed, cache_buffer>>
    /\ UNCHANGED <<throttleVars, cacheVars>>
    /\ UNCHANGED overlapped

\* the relay loop: target_read.read returned n > 0 bytes; they are written to
\* the client and appended to cache_buffer
RelayChunkTeeTwice(n) ==
    /\ hpc[n] = "relay"
    /\ Len(cache_buffer[n]) < Len(Response)
    /\ LET chunk == <<Response[Len(cache_buffer[n]) + 1]>> IN
       /\ client_out' = [client_out EXCEPT ![n] = @ \o chunk]
       /\ cache_buffer' = [cache_buffer EXCEPT ![n] = @ \o chunk \o chunk]
    /\ UNCHANGED <<listener, hpc, client_lines, client_closed, cache_key,
                   cached_response, dialed, upstream_task>>
    /\ UNCHANGED <<throttleVars, cacheVars>>
    /\ UNCHANGED overlapped
RelayChunk(n) ==
    /\ hpc[n] = "relay"
    /\ Len(cache_buffer[n]) < Len(Response)
    /\ LET chunk == <<Response[Len(cache_buffer[n]) + 1]>> IN
       /\ client_out' = [client_out EXCEPT ![n] = @ \o chunk]
       /\ cache_buffer' = [cache_buffer EXCEPT ![n] = @ \o chunk]
    /\ UNCHANGED <<listener, hpc, client_lines, client_closed, cache_key,
                   cached_response, dialed, upstream_task>>
    /\ UNCHANGED <<throttleVars, cacheVars>>
    /\ UNCHANGED overlapped

\* the relay loop: target_read.read returned 0 (the upstream closed): break
RelayEof(n) ==
    /\ hpc[n] = "relay"
    /\ hpc' = [hpc EXCEPT ![n] = "await_upstream"]
    /\ UNCHANGED <<listener, client_lines, client_closed, cache_key,
                   cached_response, dialed, client_out, cache_buffer, upstream_task>>
    /\ UNCHANGED <<throttleVars, cacheVars>>
    /\ UNCHANGED overlapped

\* a read or a write of the handler task returns Err and `?` returns it
IoError(n) ==
    /\ hpc[n] \in {"first_line", "headers", "replay", "connected", "relay"}
    /\ HandlerErr(n)
    /\ UNCHANGED <<client_lines, client_closed, cache_key, cached_response,
                   dialed, client_out>>
    /\ UNCHANGED <<throttleVars, cacheVars>>
    /\ UNCHANGED overlapped

\* tokio::io::copy(client_read, target_write) ends: Ok when its read returns
\* 0 (the client closed its sending direction), Err on a failed read or write.
\* The handler sees the end at its join, so it is taken there.
UpstreamTaskEnd(n, ok) ==
    /\ upstream_task[n] = "running"
    /\ hpc[n] = "await_upstream"
    /\ upstream_task' = [upstream_task EXCEPT ![n] = IF ok THEN "ok" ELSE "err"]
    /\ client_closed' = [client_closed EXCEPT ![n] = @ \/ ok]
    /\ UNCHANGED <<listener, hpc, client_lines, cache_key,
                   cached_response, dialed, client_out, cache_buffer>>
    /\ UNCHANGED <<throttleVars, cacheVars>>
    /\ UNCHANGED overlapped

\* let _ = upstream_task.await; then cache.put(&cache_key, &cache_buffer) is
\* called at second t
JoinThenPut(n, t) ==
    /\ hpc[n] = "await_upstream"
    /\ upstream_task[n] \in {"ok", "err"}
    /\ CachePutCall(n, cache_key[n], cache_buffer[n], t)
    /\ hpc' = [hpc EXCEPT ![n] = "cache_put"]
    /\ UNCHANGED <<listener, client_lines, client_closed, cache_key,
                   cached_response, dialed, client_out, cache_buffer, upstream_task>>
    /\ UNCHANGED throttleVars
    /\ UNCHANGED overlapped

\* cache.put(..).await.ok(); Ok(())
PutReturns(n) ==
    /\ hpc[n] = "cache_put"
    /\ opc[n] = "done"
    /\ hpc' = [hpc EXCEPT ![n] = "done"]
    /\ UNCHANGED <<listener, client_lines, client_closed, cache_key,
                   cached_response, dialed, client_out, cache_buffer, upstream_task>>
    /\ UNCHANGED <<throttleVars, cacheVars>>
    /\ UNCHANGED overlapped

\* the handler task is dropped while it waits for the network (the calls on
\* the in-memory cache have no suspension point)
Abort(n) ==
    /\ \/ hpc[n] \in {"first_line", "headers", "replay", "connected", "relay",
                      "await_upstream"}
       \/ hpc[n] = "throttle" /\ pc[n] = "done"
    /\ hpc' = [hpc EXCEPT ![n] = "aborted"]
    /\ DropLocals(n)
    /\ UNCHANGED <<listener, client_lines, client_closed, cache_key,
                   cached_response, dialed, client_out>>
    /\ UNCHANGED <<throttleVars, cacheVars>>
    /\ UNCHANGED overlapped

\* the handler task is dropped while it sleeps in throttle
AbortSleep(n) ==
    /\ hpc[n] = "throttle"
    /\ Cancel(n)
    /\ hpc' = [hpc EXCEPT ![n] = "aborted"]
    /\ DropLocals(n)
    /\ UNCHANGED <<listener, client_lines, client_closed, cache_key,
                   cached_response, dialed, client_out>>
    /\ UNCHANGED cacheVars
    /\ UNCHANGED overlapped

\* ------------------------------------------- the legacy binary's throttler
VARIABLES
    HOST_TIMESTAMPS, \* the static map of src/main.rs: host -> next admit instant
    tpc,             \* per call: where in throttle_host() it is
    host,            \* per call: the host argument
    host_now,        \* per call: the sampled instant (line 60)
    wait_duration    \* per call: wait_duration of throttle_host

legacyVars == <<HOST_TIMESTAMPS, tpc, host, host_now, wait_duration>>

\* throttle_duration_ms, the argument every call of the binary is given
throttle_duration_ms == Interval

\* the process starts: the Lazy map is empty
LegacyNew ==
    /\ HOST_TIMESTAMPS = << >>
    /\ tpc = [c \in Calls |-> "idle"]
    /\ host = [c \in Calls |-> "-"]
    /\ host_now = [c \in Calls |-> 0]
    /\ wait_duration = [c \in Calls |-> 0]

\* throttle_host(host, throttle_duration_ms) is called at instant t
ThrottleHostCall(c, h, t) ==
    /\ tpc[c] = "idle"
    /\ host' = [host EXCEPT ![c] = h]
    /\ host_now' = [host_now EXCEPT ![c] = t]
    /\ tpc' = [tpc EXCEPT ![c] = "get_mut"]
    /\ UNCHANGED <<HOST_TIMESTAMPS, wait_duration>>

\* what both branches do with the entry they hold: start_time, new_start,
\* *entry = new_start, start_time.duration_since(now)
HostStartTime(n, entry) == IF n >= entry THEN n ELSE entry
HostNewStartNoDelay(start_time) == start_time
HostNewStart(start_time) == start_time + throttle_duration_ms
HostWait(start_time, n) == IF start_time >= n THEN start_time - n ELSE 0

ThrottleHostUpdate(c, entry) ==
    LET start_time == HostStartTime(host_now[c], entry)
        w == HostWait(start_time, host_now[c])
    IN /\ HOST_TIMESTAMPS' = MapInsert(HOST_TIMESTAMPS, host[c], HostNewStart(start_time))
       /\ wait_duration' = [wait_duration EXCEPT ![c] = w]
       /\ tpc' = [tpc EXCEPT ![c] = IF w = 0 THEN "done" ELSE "sleeping"]

\* the fast path: HOST_TIMESTAMPS.get_mut(host); None goes to the slow path
ThrottleHostGetMut(c) ==
    /\ tpc[c] = "get_mut"
    /\ IF host[c] \in DOMAIN HOST_TIMESTAMPS
       THEN ThrottleHostUpdate(c, HOST_TIMESTAMPS[host[c]])
       ELSE /\ tpc' = [tpc EXCEPT ![c] = "entry"]
            /\ UNCHANGED <<HOST_TIMESTAMPS, wait_duration>>
    /\ UNCHANGED <<host, host_now>>

\* the slow path: entry(host).or_insert(now), the entry kept locked while it
\* is updated
ThrottleHostEntry(c) ==
    /\ tpc[c] = "entry"
    /\ ThrottleHostUpdate(c, IF host[c] \in DOMAIN HOST_TIMESTAMPS
                             THEN HOST_TIMESTAMPS[host[c]] ELSE host_now[c])
    /\ UNCHANGED <<host, host_now>>

\* tokio::time::sleep(wait_duration) is over: throttle_host() returns Ok
ThrottleHostWake(c) ==
    /\ tpc[c] = "sleeping"
    /\ tpc' = [tpc EXCEPT ![c] = "done"]
    /\ UNCHANGED <<HOST_TIMESTAMPS, host, host_now, wait_duration>>

\* ------------------------------------------------------- specifications
vars == <<throttleVars, cacheVars, serverVars, legacyVars>>

\* the throttler alone, beside a cache that is not used
InitThrottle == ThrottlerNew /\ CacheNew(Ttl, "memory") /\ ServerNew /\ LegacyNew

NextThrottle ==
    \/ \E c \in Calls, k \in Keys, t \in 0..MaxTime :
          Throttle(c, k, t) /\ UNCHANGED <<cacheVars, serverVars, legacyVars>>
    \/ \E c \in Calls : GetMut(c) /\ UNCHANGED <<cacheVars, serverVars, legacyVars>>
    \/ \E c \in Calls : Insert(c) /\ UNCHANGED <<cacheVars, serverVars, legacyVars>>
    \/ \E c \in Calls : Wake(c) /\ UNCHANGED <<cacheVars, serverVars, legacyVars>>
    \/ \E c \in Calls : Cancel(c) /\ UNCHANGED <<cacheVars, serverVars, legacyVars>>

SpecThrottle == InitThrottle /\ [][NextThrottle]_vars

\* the cache alone, on either storage backend, beside an idle throttler
InitCache ==
    /\ ThrottlerNew
    /\ \E b \in {"memory", "file"} : CacheNew(Ttl, b)
    /\ ServerNew
    /\ LegacyNew

NextCache ==
    \/ \E o \in Ops, k \in CKeys, t \in 0..MaxWall :
          Put(o, k, t) /\ UNCHANGED <<throttleVars, serverVars, legacyVars>>
    \/ \E o \in Ops : PutInsert(o) /\ UNCHANGED <<throttleVars, serverVars, legacyVars>>
    \/ \E o \in Ops : StorePut(o) /\ UNCHANGED <<throttleVars, serverVars, legacyVars>>
    \/ \E o \in Ops : StoreWrite(o) /\ UNCHANGED <<throttleVars, serverVars, legacyVars>>
    \/ \E o \in Ops, k \in CKeys, t \in 0..MaxWall :
          Get(o, k, t) /\ UNCHANGED <<throttleVars, serverVars, legacyVars>>
    \/ \E o \in Ops : GetLookup(o) /\ UNCHANGED <<throttleVars, serverVars, legacyVars>>
    \/ \E o \in Ops : GetStore(o) /\ UNCHANGED <<throttleVars, serverVars, legacyVars>>
    \/ \E o \in Ops : GetDelete(o) /\ UNCHANGED <<throttleVars, serverVars, legacyVars>>
    \/ \E o \in Ops : GetRemove(o) /\ UNCHANGED <<throttleVars, serverVars, legacyVars>>

SpecCache == InitCache /\ [][NextCache]_vars

\* the cache used sequentially: an operation is called when none is in progress
NoOpInProgress == \A o \in Ops : opc[o] \in {"idle", "done"}

NextCacheSeq ==
    \/ \E o \in Ops, k \in CKeys, t \in 0..MaxWall :
          NoOpInProgress /\ Put(o, k, t) /\ UNCHANGED <<throttleVars, serverVars, legacyVars>>
    \/ \E o \in Ops : PutInsert(o) /\ UNCHANGED <<throttleVars, serverVars, legacyVars>>
    \/ \E o \in Ops : StorePut(o) /\ UNCHANGED <<throttleVars, serverVars, legacyVars>>
    \/ \E o \in Ops : StoreWrite(o) /\ UNCHANGED <<throttleVars, serverVars, legacyVars>>
    \/ \E o \in Ops, k \in CKeys, t \in 0..MaxWall :
          NoOpInProgress /\ Get(o, k, t) /\ UNCHANGED <<throttleVars, serverVars, legacyVars>>
    \/ \E o \in Ops : GetLookup(o) /\ UNCHANGED <<throttleVars, serverVars, legacyVars>>
    \/ \E o \in Ops : GetStore(o) /\ UNCHANGED <<throttleVars, serverVars, legacyVars>>
    \/ \E o \in Ops : GetDelete(o) /\ UNCHANGED <<throttleVars, serverVars, legacyVars>>
    \/ \E o \in Ops : GetRemove(o) /\ UNCHANGED <<throttleVars, serverVars, legacyVars>>

SpecCacheSeq == InitCache /\ [][NextCacheSeq]_vars

\* the cache with its puts called one after another and its gets at any
\* time: a put is called when no other put is in progress
NoPutInProgress == \A o \in Ops : okind[o] = "put" => opc[o] = "done"

NextCachePutsInTurn ==
    \/ \E o \in Ops, k \in CKeys, t \in 0..MaxWall :
          NoPutInProgress /\ Put(o, k, t) /\ UNCHANGED <<throttleVars, serverVars, legacyVars>>
    \/ \E o \in Ops : PutInsert(o) /\ UNCHANGED <<throttleVars, serverVars, legacyVars>>
    \/ \E o \in Ops : StorePut(o) /\ UNCHANGED <<throttleVars, serverVars, legacyVars>>
    \/ \E o \in Ops : StoreWrite(o) /\ UNCHANGED <<throttleVars, serverVars, legacyVars>>
    \/ \E o \in Ops, k \in CKeys, t \in 0..MaxWall :
          Get(o, k, t) /\ UNCHANGED <<throttleVars, serverVars, legacyVars>>
    \/ \E o \in Ops : GetLookup(o) /\ UNCHANGED <<throttleVars, serverVars, legacyVars>>
    \/ \E o \in Ops : GetStore(o) /\ UNCHANGED <<throttleVars, serverVars, legacyVars>>
    \/ \E o \in Ops : GetDelete(o) /\ UNCHANGED <<throttleVars, serverVars, legacyVars>>
    \/ \E o \in Ops : GetRemove(o) /\ UNCHANGED <<throttleVars, serverVars, legacyVars>>

SpecCachePutsInTurn == InitCache /\ [][NextCachePutsInTurn]_vars

\* the server built by Server::new_in_memory: the acceptor, the handler tasks
\* and the cache and throttler steps their calls run.  Time passes before a
\* lookup and in the sleeps of throttle; the throttle call and the put of a
\* handler sample the clocks where the last sample left them.
InitServer == ThrottlerNew /\ CacheNew(Ttl, "memory") /\ ServerNew /\ LegacyNew

NextServer ==
    \/ \E ok \in BOOLEAN : Bind(ok) /\ UNCHANGED legacyVars
    \/ \E n \in Conns, req \in Requests : Accept(n, req) /\ UNCHANGED legacyVars
    \/ AcceptFail /\ UNCHANGED legacyVars
    \/ \E n \in Conns : ReadFirstLine(n) /\ UNCHANGED legacyVars
    \/ \E n \in Conns, t \in 0..MaxWall : ReadHeaders(n, t) /\ UNCHANGED legacyVars
    \/ \E n \in Conns : GetLookup(n) /\ UNCHANGED <<throttleVars, serverVars, legacyVars>>
    \/ \E n \in Conns : GetStore(n) /\ UNCHANGED <<throttleVars, serverVars, legacyVars>>
    \/ \E n \in Conns : GetDelete(n) /\ UNCHANGED <<throttleVars, serverVars, legacyVars>>
    \/ \E n \in Conns : GetRemove(n) /\ UNCHANGED <<throttleVars, serverVars, legacyVars>>
    \/ \E n \in Conns : CacheHit(n) /\ UNCHANGED legacyVars
    \/ \E n \in Conns : Replay(n) /\ UNCHANGED legacyVars
    \/ \E n \in Conns, t \in clock..clock : CacheMiss(n, t) /\ UNCHANGED legacyVars
    \/ \E n \in Conns : GetMut(n) /\ UNCHANGED <<cacheVars, serverVars, legacyVars>>
    \/ \E n \in Conns : Insert(n) /\ UNCHANGED <<cacheVars, serverVars, legacyVars>>
    \/ \E n \in Conns : Wake(n) /\ UNCHANGED <<cacheVars, serverVars, legacyVars>>
    \/ \E n \in Conns, ok \in BOOLEAN : Dial(n, ok) /\ UNCHANGED legacyVars
    \/ \E n \in Conns : StartRelay(n) /\ UNCHANGED legacyVars
    \/ \E n \in Conns : RelayChunk(n) /\ UNCHANGED legacyVars
    \/ \E n \in Conns : RelayEof(n) /\ UNCHANGED legacyVars
    \/ \E n \in Conns : IoError(n) /\ UNCHANGED legacyVars
    \/ \E n \in Conns, ok \in BOOLEAN : UpstreamTaskEnd(n, ok) /\ UNCHANGED legacyVars
    \/ \E n \in Conns, t \in wall..wall : JoinThenPut(n, t) /\ UNCHANGED legacyVars
    \/ \E n \in Conns : PutInsert(n) /\ UNCHANGED <<throttleVars, serverVars, legacyVars>>
    \/ \E n \in Conns : StorePut(n) /\ UNCHANGED <<throttleVars, serverVars, legacyVars>>
    \/ \E n \in Conns : PutReturns(n) /\ UNCHANGED legacyVars
    \/ \E n \in Conns : Abort(n) /\ UNCHANGED legacyVars
    \/ \E n \in Conns : AbortSleep(n) /\ UNCHANGED legacyVars

SpecServer == InitServer /\ [][NextServer]_vars

\* the scheduling of the runtime for the server: a handler task that can run
\* is eventually run.  What the client and the upstream do (the end of
\* upstream_task among it), I/O errors and aborts are not required to happen.
RuntimeStep ==
    \E n \in Conns :
        \/ (GetLookup(n) \/ GetStore(n) \/ GetDelete(n) \/ GetRemove(n)
               \/ PutInsert(n) \/ StorePut(n)) /\ UNCHANGED <<throttleVars, serverVars, legacyVars>>
        \/ (GetMut(n) \/ Insert(n) \/ Wake(n)) /\ UNCHANGED <<cacheVars, serverVars, legacyVars>>
        \/ (CacheHit(n) \/ Replay(n) \/ CacheMiss(n, clock) \/ StartRelay(n)
               \/ JoinThenPut(n, wall) \/ PutReturns(n)) /\ UNCHANGED legacyVars

SpecServerFair == SpecServer /\ WF_vars(RuntimeStep)

\* the scheduling of the runtime: a task that can run is eventually run, and a
\* timer that was armed eventually fires
SpecThrottleFair ==
    /\ SpecThrottle
    /\ WF_vars(\E c \in Calls : (GetMut(c) \/ Insert(c) \/ Wake(c)) /\ UNCHANGED <<cacheVars, serverVars, legacyVars>>)

\* the two throttlers beside one another, given the same calls: call c is
\* made on both with the same key at the same sampled instant, after every
\* earlier call has returned from both
NoCallInProgress ==
    \A c \in Calls : pc[c] \in {"idle", "done"} /\ tpc[c] \in {"idle", "done"}

ThrottleBoth(c, k, t) ==
    /\ NoCallInProgress
    /\ \A d \in Calls : host_now[d] + wait_duration[d] <= t
    /\ Throttle(c, k, t)
    /\ ThrottleHostCall(c, k, t)

NextThrottlers ==
    \/ \E c \in Calls, k \in Keys, t \in 0..MaxTime :
          ThrottleBoth(c, k, t) /\ UNCHANGED <<cacheVars, serverVars>>
    \/ \E c \in Calls : GetMut(c) /\ UNCHANGED <<cacheVars, serverVars, legacyVars>>
    \/ \E c \in Calls : Insert(c) /\ UNCHANGED <<cacheVars, serverVars, legacyVars>>
    \/ \E c \in Calls : Wake(c) /\ UNCHANGED <<cacheVars, serverVars, legacyVars>>
    \/ \E c \in Calls : ThrottleHostGetMut(c) /\ UNCHANGED <<throttleVars, cacheVars, serverVars>>
    \/ \E c \in Calls : ThrottleHostEntry(c) /\ UNCHANGED <<throttleVars, cacheVars, serverVars>>
    \/ \E c \in Calls : ThrottleHostWake(c) /\ UNCHANGED <<throttleVars, cacheVars, serverVars>>

SpecThrottlers == InitThrottle /\ [][NextThrottlers]_vars

\* ------------------------------------------------- throttler: properties
\* the call has its wait_duration
Reserved(c) == pc[c] \in {"sleeping", "done", "cancelled"}
\* the call is admitted (or will be, when its sleep is over)
Admitted(c) == pc[c] \in {"sleeping", "done"}
\* the admission instant of a call: sampled now + returned wait
Admit(c) == now[c] + wait[c]
Abs(x) == IF x >= 0 THEN x ELSE 0 - x
\* the place of a call's reservation among those of its key
ResIdx(c) == CHOOSE i \in 1..Len(resv[key[c]]) : resv[key[c]][i].call = c

\* C1: any two calls on the same key are admitted at least one interval
\* apart, under every interleaving, first calls on a fresh key included.
C1_Spacing ==
    \A c, d \in Calls :
        (c # d /\ Admitted(c) /\ Admitted(d) /\ key[c] = key[d])
            => Abs(Admit(c) - Admit(d)) >= Interval

\* C2: no reservation is lost: every reservation on a key raises next_admit
\* of the key by at least the interval over the value the reservation before
\* it left, and the map holds the value of the last reservation.
C2_NoLostReservation ==
    \A k \in Keys :
        /\ \A i \in 2..Len(resv[k]) : resv[k][i].new >= resv[k][i-1].new + Interval
        /\ MapGet(key_timestamps, k) =
               (IF resv[k] = << >> THEN << >> ELSE <<resv[k][Len(resv[k])].new>>)

\* C3 (as claimed): the successive values of next_admit of a key form an
\* arithmetic progression with step exactly the interval.
C3_ArithmeticProgression ==
    \A k \in Keys :
        \A i \in 2..Len(resv[k]) : resv[k][i].new = resv[k][i-1].new + Interval

\* C3 (amended): a reservation that finds the entry sets next_admit to
\* max(now, next_admit) + interval: a step of at least the interval, of
\* exactly the interval when now <= next_admit and of more when the key was
\* idle; a reservation that found no entry sets it to now + interval.
C3_StepAtLeastInterval ==
    \A k \in Keys :
        \A i \in 1..Len(resv[k]) :
            LET r == resv[k][i]
                n == now[r.call]
            IN IF r.found
               THEN /\ i > 1
                    /\ r.new >= resv[k][i-1].new + Interval
                    /\ (n <= resv[k][i-1].new => r.new = resv[k][i-1].new + Interval)
                    /\ (n > resv[k][i-1].new => r.new = n + Interval)
               ELSE r.new = n + Interval

\* C3 witness: a key was idle for longer than the interval, and the next
\* reservation on it advanced next_admit by more than the interval.
C3_Witness ==
    \E k \in Keys :
        /\ Len(resv[k]) >= 2
        /\ resv[k][2].found
        /\ resv[k][2].new > resv[k][1].new + Interval

\* C4: the wait is 0 when the key has no entry (and next_admit becomes
\* now + interval); with an entry it is 0 when next_admit <= now and
\* next_admit - now otherwise.  A call that immediately follows the first
\* call on a fresh key waits a full interval.
C4_WaitValue ==
    /\ \A c \in Calls :
          Reserved(c) =>
             IF seen[c] = << >>
             THEN /\ wait[c] = 0
                  /\ resv[key[c]][ResIdx(c)].new = now[c] + Interval
             ELSE wait[c] = (IF seen[c][1] <= now[c] THEN 0 ELSE seen[c][1] - now[c])
    /\ \A k \in Keys :
          (/\ Len(resv[k]) >= 2
           /\ ~resv[k][1].found
           /\ resv[k][2].found
           /\ now[resv[k][2].call] = now[resv[k][1].call])
             => wait[resv[k][2].call] = Interval

\* C4 witness: the first call on a fresh key got wait 0 and the call right
\* after it, at the same instant, waits a full interval.
C4_Witness ==
    \E k \in Keys :
        /\ Len(resv[k]) >= 2
        /\ ~resv[k][1].found /\ wait[resv[k][1].call] = 0
        /\ resv[k][2].found
        /\ now[resv[k][2].call] = now[resv[k][1].call]
        /\ wait[resv[k][2].call] = Interval

\* C5: a step of a call on key k1 leaves the entry of every other key as it
\* was, and the wait a call gets is a function of its own now and of the
\* entry of its own key alone (zero for the first call on a fresh key).
C5_OtherKeysUntouched ==
    [][\A c \in Calls :
          pc'[c] # pc[c] =>
             /\ \A k \in Keys \ {key'[c]} :
                   MapGet(key_timestamps', k) = MapGet(key_timestamps, k)
             /\ (pc[c] = "get_mut" /\ Reserved(c)') =>
                   /\ key[c] \in DOMAIN key_timestamps
                   /\ wait'[c] = Max(now[c], key_timestamps[key[c]]) - now[c]
             /\ pc[c] = "insert" => wait'[c] = 0]_vars

\* C5 witness: first calls on two distinct fresh keys at the same instant,
\* both back with zero wait.
C5_Witness ==
    \E c, d \in Calls :
        /\ key[c] # key[d]
        /\ pc[c] = "done" /\ pc[d] = "done"
        /\ seen[c] = << >> /\ seen[d] = << >>
        /\ now[c] = now[d]
        /\ wait[c] = 0 /\ wait[d] = 0

\* C6: on one key, a call whose reservation completed before that of
\* another call is admitted strictly earlier.
C6_AdmissionOrder ==
    \A k \in Keys :
        \A i, j \in 1..Len(resv[k]) :
            i < j => Admit(resv[k][i].call) < Admit(resv[k][j].call)

\* C7: every throttle call that is not cancelled eventually returns: whatever
\* calls are in flight, a state is always reached again in which none is
\* (each started call is done, or was cancelled).
InFlight(c) == pc[c] \in {"get_mut", "insert", "sleeping"}
C7_EventuallyReturns == []<>(\A c \in Calls : ~InFlight(c))

\* C7 witness: a call that had to sleep has returned while another call on
\* the same key is still in flight.
C7_Witness ==
    \E c, d \in Calls :
        /\ c # d /\ key[c] = key[d]
        /\ pc[c] = "done" /\ wait[c] > 0
        /\ InFlight(d)

\* C8: the reservation of a call cancelled in its sleep is not rolled back:
\* while it is the last one on its key the map still holds its value, and
\* the call that reserves next on the key is admitted at least one interval
\* after the instant the cancelled call had reserved.
C8_CancelKeepsReservation ==
    \A c \in Calls :
        pc[c] = "cancelled" =>
            LET k == key[c]
                i == ResIdx(c)
            IN /\ i = Len(resv[k]) => MapGet(key_timestamps, k) = <<resv[k][i].new>>
               /\ (i < Len(resv[k]) /\ resv[k][i+1].found) =>
                     Admit(resv[k][i+1].call) >= Admit(c) + Interval

\* C8 witness: a call was cancelled in its sleep, and the next call on the
\* key, sampled less than an interval after the cancelled call's instant,
\* still waits for it.
C8_Witness ==
    \E c \in Calls :
        /\ pc[c] = "cancelled"
        /\ ResIdx(c) < Len(resv[key[c]])
        /\ LET d == resv[key[c]][ResIdx(c) + 1].call
           IN /\ resv[key[c]][ResIdx(c) + 1].found
              /\ Reserved(d)
              /\ now[d] < Admit(c) + Interval
              /\ Admit(d) >= Admit(c) + Interval

\* ----------------------------------------------------- cache: properties
\* a get that has returned
GetDone(o) == okind[o] = "get" /\ opc[o] = "done"

\* C9: a get returns bytes only when its lookup found an expiry record with
\* now < evict_at; with no record, or with now >= evict_at, it returns none.
C9_ServedOnlyIfFresh ==
    \A o \in Ops :
        GetDone(o) =>
            /\ oret[o] # << >> => (oevict[o] # << >> /\ onow[o] < oevict[o][1])
            /\ (oevict[o] = << >> \/ onow[o] >= oevict[o][1]) => oret[o] = << >>

\* C9 witness: one get found a live record and returned bytes, another found
\* the record expired and returned none.
C9_Witness ==
    \E o, q \in Ops :
        /\ GetDone(o) /\ oret[o] # << >>
        /\ GetDone(q) /\ oevict[q] # << >> /\ onow[q] >= oevict[q][1] /\ oret[q] = << >>

\* C10: the bytes a get returns at t are never those of a put issued ttl or
\* more before t, also while a newer put on the key has refreshed the expiry
\* record and not yet written the storage.
C10_ExpiryMonotonicity ==
    \A o, p \in Ops :
        (/\ GetDone(o) /\ oret[o] # << >>
         /\ okind[p] = "put" /\ okey[p] = okey[o]
         /\ oret[o][1] = Val(p))
            => onow[o] - onow[p] < ttl_seconds

\* a put that has returned Ok / Err
PutOk(p) == okind[p] = "put" /\ opc[p] = "done" /\ oret[p] = PutOkUnit
PutErr(p) == okind[p] = "put" /\ opc[p] = "done" /\ oret[p] = PutErrUnit
\* no put on the key of p was called after p and before o
NoPutBetween(p, o) ==
    \A q \in Ops : (p < q /\ q < o /\ okey[q] = okey[p]) => okind[q] # "put"
\* a get that found the expiry record expired
SawExpired(o) == oevict[o] # << >> /\ onow[o] >= oevict[o][1]

C13_FailedPutConsistent ==
    \A f, o \in Ops :
        (PutErr(f) /\ GetDone(o) /\ f < o /\ okey[o] = okey[f] /\ NoPutBetween(f, o))
            => \/ oret[o] = << >>
               \/ \E p \in Ops : /\ PutOk(p) /\ p < f /\ okey[p] = okey[f]
                                 /\ oret[o] = <<Val(p)>>
                                 /\ onow[o] - onow[p] < ttl_seconds

\* C14: a get returns none or the complete bytes of some put on the key,
\* never an empty, truncated or mixed value, also beside a concurrent put.
C14_NoPartialRead ==
    \A o \in Ops :
        (GetDone(o) /\ oret[o] # << >>) =>
            \E p \in Ops : okind[p] = "put" /\ okey[p] = okey[o] /\ oret[o] = <<Val(p)>>

\* ----------------------------------------------------- server: properties
\* cache.get has returned to the handler of connection n: a hit / a miss
Hit(n) == cached_response[n] # << >> /\ cached_response[n][1] # << >>
Miss(n) == cached_response[n] # << >> /\ cached_response[n][1] = << >>
\* the cache.put called by the handler of connection n has returned
HandlerPutDone(n) == okind[n] = "put" /\ opc[n] = "done"

\* the request of connection n is one the parser has to reject
Malformed(n) ==
    \/ client_lines[n] = << >>
    \/ Len(Parts(client_lines[n][1])) < 3
    \/ HeaderEnd(client_lines[n]) = 0

\* C15: in every connection the cache lookup comes before any throttle call:
\* throttle is called, and the upstream dialed, only after the lookup missed,
\* and the dial only after throttle returned; a connection whose lookup hit
\* has called no throttle and dialed nothing, and when it is done the client
\* has received the cached bytes.
C15_LookupBeforeThrottle ==
    \A n \in Conns :
        /\ pc[n] # "idle" => Miss(n)
        /\ dialed[n] => Miss(n) /\ pc[n] = "done"
        /\ Hit(n) => /\ pc[n] = "idle" /\ ~dialed[n]
                     /\ hpc[n] = "done" => client_out[n] = cached_response[n][1][1]

\* C15 witness: one connection missed, throttled and dialed, another was
\* served from the cache and is done.
C15_Witness ==
    \E m, n \in Conns :
        /\ Miss(m) /\ pc[m] = "done" /\ dialed[m]
        /\ Hit(n) /\ hpc[n] = "done" /\ method(n) = "GET"
        /\ client_out[n] = Response

\* C16: for a fingerprint the upstream is dialed at most once per cache
\* lifetime, under every interleaving: a connection that has dialed does so
\* beside another connection that dialed for the same fingerprint only when
\* that one's entry was put and had expired at its lookup (shown for
\* well-formed requests).
C16_SingleDialPerLifetime ==
    \A m, n \in Conns :
        (m # n /\ dialed[m] /\ dialed[n] /\ cache_key[m] = cache_key[n]
              /\ ~Malformed(m) /\ ~Malformed(n)
              /\ okind[n] = "get" /\ hpc[m] \notin {"failed", "aborted"})
            => HandlerPutDone(m) /\ onow[n] >= onow[m] + ttl_seconds

\* C16 as amended: when connections are handled one after another, a
\* connection dials for a fingerprint that an earlier connection has put
\* only if its lookup was made at or after that entry's expiry.
C16_SequentialSingleDial ==
    ~overlapped =>
        \A m, n \in Conns :
            (m < n /\ HandlerPutDone(m) /\ dialed[n] /\ cache_key[m] = cache_key[n]
                   /\ okind[n] = "get")
                => onow[n] >= onow[m] + ttl_seconds

\* C16 witness: handled after the connection that put the entry, and within
\* its ttl, a connection with the same fingerprint was served without a dial.
C16_Witness ==
    \E m, n \in Conns :
        /\ ~overlapped /\ m < n /\ HandlerPutDone(m) /\ dialed[m]
        /\ cache_key[m] = cache_key[n] /\ hpc[n] = "done" /\ Hit(n) /\ ~dialed[n]
        /\ onow[n] < onow[m] + ttl_seconds

\* C17: a connection calls cache.put only after a relay that ended with a
\* clean upstream EOF and no error in either direction (shown for well-formed
\* requests).
C17_PutOnlyAfterCleanRelay ==
    \A n \in Conns :
        (okind[n] = "put" /\ ~Malformed(n))
            => hpc[n] \in {"cache_put", "done"} /\ upstream_task[n] = "ok"

\* C18: once the upstream has reached EOF in a relay without an I/O error the
\* handler eventually puts and is done (unless its task is aborted), whatever
\* the client does (shown for well-formed requests).
C18_EventuallyPut ==
    \A n \in Conns :
        (hpc[n] = "await_upstream" /\ ~Malformed(n)) ~> (hpc[n] \in {"done", "aborted"})

\* C19: an error in a connection handler leaves the acceptor accepting, and
\* the next connection can be accepted: the acceptor is ended only by a failed
\* bind or a failed accept.
C19_ErrorsConfined ==
    listener \notin {"unbound", "Failed to bind to address", "Failed to accept connection"}
        => /\ listener = "accepting"
           /\ \A n \in Conns :
                 (hpc[n] = "none" /\ \A m \in Conns : m < n => hpc[m] # "none")
                     => ENABLED (\E req \in Requests : Accept(n, req))

\* C19 witness: a handler failed, and a connection accepted after it was
\* relayed, put in the cache and is done.
C19_Witness ==
    \E m, n \in Conns :
        /\ m < n /\ hpc[m] = "failed" /\ ~overlapped
        /\ hpc[n] = "done" /\ HandlerPutDone(n) /\ listener = "accepting"

\* C20: a connection whose first line is absent or has fewer than three
\* tokens, or whose stream ends before an empty line, fails without a cache
\* lookup, a throttle call or a dial.
C20_MalformedRejected ==
    \A n \in Conns :
        (hpc[n] # "none" /\ Malformed(n))
            => /\ hpc[n] \in {"first_line", "headers", "failed", "aborted"}
               /\ okind[n] = "-" /\ pc[n] = "idle" /\ ~dialed[n]

\* the bytes read from the upstream and written to the client in the relay of
\* connection n: what the client received, less the proxy's own 200 line
Relayed(n) == IF method(n) = "CONNECT" THEN Tail(client_out[n]) ELSE client_out[n]

\* C21: the value a handler puts, and the in-memory store then holds under
\* the fingerprint, is exactly the byte sequence relayed to the client; while
\* the relay is in progress the handler has put nothing, and the bytes of a
\* hit are always the complete value of a put that was called.
C21_TeeExact ==
    [][\A n \in Conns :
          /\ (hpc[n] = "await_upstream" /\ hpc'[n] = "cache_put")
                => oval'[n] = Relayed(n)
          /\ (opc[n] = "put_store" /\ opc'[n] = "done")
                => store'[cache_key[n]] = Relayed(n)
          /\ hpc'[n] \in {"connected", "relay", "await_upstream"} => okind'[n] = "get"
          /\ (hpc[n] = "cache_get" /\ hpc'[n] = "replay")
                => \E m \in Conns : /\ okind[m] = "put"
                                    /\ cache_key[m] = cache_key[n]
                                    /\ cached_response'[n][1][1] = oval[m]
      ]_vars

\* C21 witness: a relay of the whole two-byte response ended with a put, and
\* the store holds the bytes the client received, in order.
C21_Witness ==
    \E n \in Conns :
        /\ hpc[n] = "done" /\ HandlerPutDone(n)
        /\ client_out[n] = Response /\ oval[n] = Response
        /\ cache_key[n] \in DOMAIN store /\ store[cache_key[n]] = Response

\* C22: the bytes a client receives on a cache hit equal the bytes the client
\* of the connection that put the entry received.
C22_HitEqualsMiss ==
    \A m, n \in Conns :
        (Hit(n) /\ hpc[n] = "done" /\ okind[m] = "put"
                /\ cache_key[m] = cache_key[n] /\ oval[m] = cached_response[n][1][1])
            => client_out[n] = client_out[m]

\* ------------------------------------------- cache: concurrent put and get
\* C23: a get that observed an expired record removes only that entry: when
\* puts are called in turn, the last of them returned Ok, and no get was made
\* at or after the expiry of its entry, then once all operations have
\* returned the key has that put's expiry record and bytes (a get within the
\* ttl returns them).
C23_NoLostPut ==
    \A p \in Ops :
        (/\ PutOk(p) /\ NoOpInProgress
         /\ \A q \in Ops : q > p => okind[q] # "put"
         /\ \A g \in Ops : okind[g] = "get" => onow[g] < onow[p] + ttl_seconds)
            => /\ MapGet(key_and_evict_map, okey[p]) = <<onow[p] + ttl_seconds>>
               /\ MapGet(store, okey[p]) = <<Val(p)>>

\* C24: when no cache operation is in progress, every key that has bytes in
\* the storage backend has an expiry record.
C24_NoOrphanedBytes ==
    NoOpInProgress => DOMAIN store \subseteq DOMAIN key_and_evict_map

\* ------------------------------------------- the two throttlers: properties
\* the call has its wait on both throttlers
ReservedOnBoth(c) == Reserved(c) /\ tpc[c] \in {"sleeping", "done"}
\* no call is between its entry and its update of the map, on either side
MapsSettled ==
    \A c \in Calls : /\ pc[c] \in {"idle", "sleeping", "done"}
                     /\ tpc[c] \in {"idle", "sleeping", "done"}

\* C25: given the same calls on the same keys at the same sampled instants
\* with the same interval, one after another, throttle_host and
\* InMemoryThrottler::throttle compute the same wait for every call and leave
\* the same next admit instant for every key.
C25_IterationsAgree ==
    /\ \A c \in Calls : ReservedOnBoth(c) => wait[c] = wait_duration[c]
    /\ MapsSettled =>
          /\ DOMAIN key_timestamps = DOMAIN HOST_TIMESTAMPS
          /\ \A k \in DOMAIN key_timestamps : key_timestamps[k] = HOST_TIMESTAMPS[k]

\* every call has returned from both throttlers, one of them after a sleep,
\* and both keys were used
C25_Witness ==
    /\ \A c \in Calls : pc[c] = "done" /\ tpc[c] = "done"
    /\ \E c \in Calls : wait[c] > 0 /\ wait_duration[c] > 0 /\ seen[c] # << >>
    /\ DOMAIN HOST_TIMESTAMPS = Keys

====
